---- MODULE Spec2Model ----
(***************************************************************************)
(* Model of src/bot.py: the Telegram handlers of the ElevenLabs TTS bot,   *)
(* the per-user voice preference they keep in context.user_data, the two   *)
(* provider calls and the top-level error boundary.                        *)
(*                                                                         *)
(* Strings and byte strings are sequences of one-character strings / of    *)
(* small numbers.  A handler is an operator from the update, the user's    *)
(* user_data dict, the provider's response and the outcomes of the         *)
(* Telegram API calls to: the new dict, the Telegram calls made, the       *)
(* provider calls made and whether it raised.  Application.builder() is    *)
(* used without concurrent_updates, so an update is processed to its end   *)
(* before the next one starts: one action per update.                      *)
(***************************************************************************)
EXTENDS Integers, Sequences, FiniteSets, TLC

VARIABLES
    user_data,  \* context.user_data of each user: a dict
    api_key,    \* ELEVENLABS_API_KEY, empty when it is not configured
    last,       \* the update being looked at: its input, the provider's
                \* response to it and what its handler did
    selected,   \* history: per user, the last well-formed payload the selection
                \* handler took up, None before the first
    offered     \* history: the buttons the pickers have shown so far, among
                \* those whose payload a user of the model sends

vars == <<user_data, api_key, last, selected, offered>>

-----------------------------------------------------------------------------
(* Bounds of the model *)

\* longest tail appended to a head to form a callback payload
MaxTail == 3
\* largest number of voices in a directory response
MaxVoices == 25
\* number of directory entries whose buttons are pressed
MaxPick == 2
\* longest text message
MaxText == 1
\* longest audio body
MaxAudio == 1
\* Telegram API calls whose outcome is drawn for one update: a handler makes at
\* most three, error_handler one
MaxTgCalls == 4

Owners == {"u1", "u2"}
Alphabet == {"a", "_"}
TextAlphabet == {"h"}
ByteValues == {0, 1}

-----------------------------------------------------------------------------
(* Program constants *)

PickerLimit == 20
RowWidth == 2
MaxSplit == 2
MinParts == 3
Unauthorized == 401

Marker == <<"v", "o", "i", "c", "e">>
Delim == "_"
Space == " "
DEFAULT_ELEVENLABS_VOICE_ID ==
    <<"2", "1", "m", "0", "0", "T", "c", "m", "4", "T",
      "l", "v", "D", "q", "8", "i", "k", "W", "A", "M">>
DefaultName == <<"D", "e", "f", "a", "u", "l", "t">>
NoKey == <<>>
SomeKey == <<"k">>

-----------------------------------------------------------------------------
(* Python values *)

\* None and a value that is not None
None == [some |-> FALSE]
Some(x) == [some |-> TRUE, v |-> x]

\* truth value of an Optional sequence: None and the empty sequence are falsy
Truthy(opt) == opt.some /\ Len(opt.v) > 0

\* a function call that returned a value, and one that raised
Return(x) == [exc |-> FALSE, val |-> x]
Raise == [exc |-> TRUE]

\* dict.get(key) handed back where a default was asked for
DictGetNoDefault(d, key, default) == IF key \in DOMAIN d THEN d[key] ELSE <<>>

\* dict.get(key, default)
DictGet(d, key, default) == IF key \in DOMAIN d THEN d[key] ELSE default

\* d[key] = value, with the assignment of voice_name left out
DictSetIdOnly(d, key, value) ==
    IF key = "voice_name" THEN d
    ELSE [k \in (DOMAIN d) \cup {key} |-> IF k = key THEN value ELSE d[k]]

\* dict.setdefault(key, value): the first value stays
DictSetDefault(d, key, value) ==
    [k \in (DOMAIN d) \cup {key} |-> IF k \in DOMAIN d THEN d[k] ELSE value]

\* d[key] = value
DictSet(d, key, value) ==
    [k \in (DOMAIN d) \cup {key} |-> IF k = key THEN value ELSE d[k]]

EmptyDict == [k \in {} |-> <<>>]

\* index of the first sep in s at or after position i, 0 if there is none
RECURSIVE Find(_, _, _)
Find(s, sep, i) ==
    IF i > Len(s) THEN 0
    ELSE IF s[i] = sep THEN i
    ELSE Find(s, sep, i + 1)

\* str.split(sep, maxsplit) for a one-character sep
RECURSIVE Split(_, _, _)
Split(s, sep, maxsplit) ==
    LET i == Find(s, sep, 1) IN
    IF maxsplit = 0 \/ i = 0 THEN <<s>>
    ELSE <<SubSeq(s, 1, i - 1)>> \o Split(SubSeq(s, i + 1, Len(s)), sep, maxsplit - 1)

\* str.replace(old, new) for one-character old and new
Replace(s, old, new) == [i \in 1..Len(s) |-> IF s[i] = old THEN new ELSE s[i]]

Min(a, b) == IF a < b THEN a ELSE b

\* a test that is never true
NotNever(x) == FALSE

\* not x, for a string that may be None or empty
Not(x) == x = <<>>

\* seq[:n]
Slice(s, n) == SubSeq(s, 1, Min(Len(s), n))

-----------------------------------------------------------------------------
(* Inputs: what the chat platform and the provider can hand to the program *)

\* all strings over alphabet of length at most n
Strings(alphabet, n) == UNION {[1..k -> alphabet] : k \in 0..n}

DigitChars == <<"0", "1", "2", "3", "4", "5", "6", "7", "8", "9">>

RECURSIVE Decimal(_)
Decimal(i) ==
    IF i < 10 THEN <<DigitChars[i + 1]>>
    ELSE Decimal(i \div 10) \o <<DigitChars[(i % 10) + 1]>>

\* the provider's i-th voice: ids v1, v2, ...; every second name holds the delimiter
VoiceAt(i) ==
    [name |-> IF i % 2 = 0 THEN <<"a", "_", "b">> ELSE <<"a">> \o Decimal(i),
     voice_id |-> <<"v">> \o Decimal(i)]

\* the JSON "voices" array of a directory response with n voices
Directory(n) == [i \in 1..n |-> VoiceAt(i)]

\* texts of incoming messages, the empty one included
Texts == Strings(TextAlphabet, MaxText)

\* HTTP statuses of a response: success, the rejected key, another failure
Statuses == {200, Unauthorized, 500}

\* response bodies
Bodies == Strings(ByteValues, MaxAudio)

\* what requests.post does: a response with a status and a body, or an exception
TtsResponses ==
    [kind : {"response"}, status : Statuses, content : Bodies]
    \cup [kind : {"request_exception", "exception"}, status : {0}, content : {<<>>}]

\* what requests.get does: a response with a status and a JSON body, or an
\* exception; kind "bad_json" is a 200 whose body json() or the comprehension rejects
DirResponses ==
    [kind : {"response"}, status : {200}, voices : {Directory(n) : n \in 0..MaxVoices}]
    \cup [kind : {"response"}, status : Statuses \ {200}, voices : {<<>>}]
    \cup [kind : {"request_exception", "exception", "bad_json"}, status : {0},
          voices : {<<>>}]

\* outcomes of the successive Telegram API calls of one update: TRUE returns,
\* FALSE raises
TgOutcomes == [1..MaxTgCalls -> BOOLEAN]

-----------------------------------------------------------------------------
(* ElevenLabs API functions *)

\* response.raise_for_status()
RaisesForStatus(resp) == resp.status >= 400

\* fetch_elevenlabs_voices without its second except clause
fetch_voices_uncaught(key, resp) ==
    CASE resp.kind = "response" /\ ~RaisesForStatus(resp) ->
            Return(Some([i \in 1..Len(resp.voices) |->
                [name |-> resp.voices[i].name, voice_id |-> resp.voices[i].voice_id]]))
      [] resp.kind = "response" /\ RaisesForStatus(resp) -> Return(None)
      [] resp.kind = "request_exception" -> Raise
      [] OTHER -> Return(None)

\* fetch_elevenlabs_voices: the list of {name, voice_id}, or None
fetch_elevenlabs_voices(key, resp) ==
    CASE resp.kind = "response" /\ ~RaisesForStatus(resp) ->
            Return(Some([i \in 1..Len(resp.voices) |->
                [name |-> resp.voices[i].name, voice_id |-> resp.voices[i].voice_id]]))
      [] resp.kind = "response" /\ RaisesForStatus(resp) -> Return(None)
      [] resp.kind = "request_exception" -> Return(None)
      [] OTHER -> Return(None)

\* generate_tts_elevenlabs without the return of its try block
generate_tts_no_return(text, voice_id, key, resp) == Return(None)

\* generate_tts_elevenlabs without its second except clause
generate_tts_uncaught(text, voice_id, key, resp) ==
    CASE resp.kind = "response" /\ ~RaisesForStatus(resp) -> Return(Some(resp.content))
      [] resp.kind = "response" /\ RaisesForStatus(resp) -> Return(None)
      [] resp.kind = "request_exception" -> Raise
      [] OTHER -> Return(None)

\* generate_tts_elevenlabs handing back the body of an error response
generate_tts_error_body(text, voice_id, key, resp) ==
    CASE resp.kind = "response" /\ ~RaisesForStatus(resp) -> Return(Some(resp.content))
      [] resp.kind = "response" /\ RaisesForStatus(resp) -> Return(Some(resp.content))
      [] resp.kind = "request_exception" -> Return(None)
      [] OTHER -> Return(None)

\* generate_tts_elevenlabs without its last except clause
generate_tts_no_catch_all(text, voice_id, key, resp) ==
    CASE resp.kind = "response" /\ ~RaisesForStatus(resp) -> Return(Some(resp.content))
      [] resp.kind = "response" /\ RaisesForStatus(resp) -> Return(None)
      [] resp.kind = "request_exception" -> Return(None)
      [] OTHER -> Raise

\* generate_tts_elevenlabs: the audio content, or None
generate_tts_elevenlabs(text, voice_id, key, resp) ==
    CASE resp.kind = "response" /\ ~RaisesForStatus(resp) -> Return(Some(resp.content))
      [] resp.kind = "response" /\ RaisesForStatus(resp) -> Return(None)
      [] resp.kind = "request_exception" -> Return(None)
      [] OTHER -> Return(None)

-----------------------------------------------------------------------------
(* Telegram API calls *)

\* the k-th Telegram API call of an update returns iff tg[k]
Call(sent, tg, m) == Append(sent, [m EXCEPT !.ok = tg[Len(sent) + 1]])

\* the last call made returned
Ok(sent) == sent[Len(sent)].ok

Msg(api, text) == [api |-> api, text |-> text, ok |-> TRUE]

\* what a handler leaves: the user's dict, the Telegram calls and provider
\* calls it made, and whether an exception left it
Outcome(d, sent, calls, raised) ==
    [user_data |-> d, sent |-> sent, calls |-> calls, raised |-> raised]

-----------------------------------------------------------------------------
(* Telegram bot handlers *)

\* start_command: the welcome message
start_command(d, tg) ==
    LET s1 == Call(<<>>, tg, Msg("reply_html", "welcome")) IN
    Outcome(d, s1, <<>>, ~Ok(s1))

\* help_command with setdefault() in place of get(): the lookup stores the default
help_command_setdefault(d, tg) ==
    LET d1 == DictSetDefault(d, "voice_id", DEFAULT_ELEVENLABS_VOICE_ID)
        d2 == DictSetDefault(d1, "voice_name", DefaultName)
        s1 == Call(<<>>, tg, [api |-> "reply_html", text |-> "help",
                               voice_name |-> d2["voice_name"],
                               voice_id |-> d2["voice_id"], ok |-> TRUE])
    IN  Outcome(d2, s1, <<>>, ~Ok(s1))

\* help_command: the help text with the user's current voice
help_command(d, tg) ==
    LET current_voice_id == DictGet(d, "voice_id", DEFAULT_ELEVENLABS_VOICE_ID)
        current_voice_name == DictGet(d, "voice_name", DefaultName)
        s1 == Call(<<>>, tg, [api |-> "reply_html", text |-> "help",
                               voice_name |-> current_voice_name,
                               voice_id |-> current_voice_id, ok |-> TRUE])
    IN  Outcome(d, s1, <<>>, ~Ok(s1))

\* the button of one voice: its label and its callback_data
Button(voice) ==
    [text |-> voice.name,
     callback_data |-> Marker \o <<Delim>> \o voice.voice_id \o <<Delim>> \o voice.name]

\* the loop of voices_command over voices[i..], with the rows built so far
RECURSIVE KeyboardLoop(_, _, _, _)
KeyboardLoop(voices, i, keyboard, row) ==
    IF i > Len(voices)
    THEN IF row # <<>> THEN Append(keyboard, row) ELSE keyboard
    ELSE LET row2 == Append(row, Button(voices[i])) IN
         IF Len(row2) = RowWidth
         THEN KeyboardLoop(voices, i + 1, Append(keyboard, row2), <<>>)
         ELSE KeyboardLoop(voices, i + 1, keyboard, row2)

\* the keyboard of all the voices, none cut off
BuildKeyboardNoLimit(voices) == KeyboardLoop(voices, 1, <<>>, <<>>)

\* the keyboard voices_command builds from the directory's voices
BuildKeyboard(voices) == KeyboardLoop(Slice(voices, PickerLimit), 1, <<>>, <<>>)

\* voices_command: the picker, or a text saying why there is none
voices_command(d, key, resp, tg) ==
    IF Not(key)
    THEN LET s1 == Call(<<>>, tg, Msg("reply_text", "not_configured")) IN
         Outcome(d, s1, <<>>, ~Ok(s1))
    ELSE
    LET s1 == Call(<<>>, tg, Msg("send_chat_action", "typing")) IN
    IF ~Ok(s1) THEN Outcome(d, s1, <<>>, TRUE)
    ELSE
    LET fetched == fetch_elevenlabs_voices(key, resp)
        calls == <<[fn |-> "fetch_elevenlabs_voices", api_key |-> key,
                    result |-> fetched]>>
    IN
    IF fetched.exc THEN Outcome(d, s1, calls, TRUE)
    ELSE IF ~Truthy(fetched.val)
    THEN LET s2 == Call(s1, tg, Msg("reply_text", "could_not_fetch")) IN
         Outcome(d, s2, calls, ~Ok(s2))
    ELSE IF ~Truthy(fetched.val)
    THEN LET s2 == Call(s1, tg, Msg("reply_text", "no_voices_found")) IN
         Outcome(d, s2, calls, ~Ok(s2))
    ELSE
    LET keyboard == BuildKeyboard(fetched.val.v) IN
    IF keyboard = <<>>
    THEN LET s2 == Call(s1, tg, Msg("reply_text", "no_voices_to_display")) IN
         Outcome(d, s2, calls, ~Ok(s2))
    ELSE LET s2 == Call(s1, tg, [api |-> "reply_text", text |-> "choose_voice",
                                   reply_markup |-> keyboard, ok |-> TRUE]) IN
         Outcome(d, s2, calls, ~Ok(s2))

\* the except clause of voice_selection_callback
SelectionExcept(d, sent, tg) ==
    LET s == Call(sent, tg, Msg("edit_message_text", "selection_error")) IN
    Outcome(d, s, <<>>, ~Ok(s))

\* the test without its marker half
InvalidPartsAnyMarker(parts) == Len(parts) < MinParts

\* the test voice_selection_callback puts on the split payload
InvalidParts(parts) == Len(parts) < MinParts \/ parts[1] # Marker

\* voice_selection_callback with the two assignments moved after the edit
voice_selection_edit_first(d, data, tg) ==
    LET s1 == Call(<<>>, tg, Msg("answer", "")) IN
    IF ~Ok(s1) THEN Outcome(d, s1, <<>>, TRUE)
    ELSE
    LET parts == Split(data, Delim, MaxSplit) IN
    IF InvalidParts(parts)
    THEN LET s2 == Call(s1, tg, Msg("edit_message_text", "invalid_data")) IN
         IF Ok(s2) THEN Outcome(d, s2, <<>>, FALSE)
         ELSE SelectionExcept(d, s2, tg)
    ELSE
    LET voice_id == parts[2]
        voice_name == Replace(parts[3], Delim, Space)
        d2 == DictSet(DictSet(d, "voice_id", voice_id), "voice_name", voice_name)
        s2 == Call(s1, tg, [api |-> "edit_message_text", text |-> "voice_set",
                             voice_name |-> voice_name, ok |-> TRUE])
    IN  IF Ok(s2) THEN Outcome(d2, s2, <<>>, FALSE)
        ELSE SelectionExcept(d, s2, tg)

\* voice_selection_callback: store the voice a payload names, or reject the payload
voice_selection_callback(d, data, tg) ==
    LET s1 == Call(<<>>, tg, Msg("answer", "")) IN
    IF ~Ok(s1) THEN Outcome(d, s1, <<>>, TRUE)
    ELSE
    LET parts == Split(data, Delim, MaxSplit) IN
    IF InvalidParts(parts)
    THEN LET s2 == Call(s1, tg, Msg("edit_message_text", "invalid_data")) IN
         IF Ok(s2) THEN Outcome(d, s2, <<>>, FALSE)
         ELSE SelectionExcept(d, s2, tg)
    ELSE
    LET voice_id == parts[2]
        voice_name == Replace(parts[3], Delim, Space)
        d2 == DictSet(DictSet(d, "voice_id", voice_id), "voice_name", voice_name)
        s2 == Call(s1, tg, [api |-> "edit_message_text", text |-> "voice_set",
                             voice_name |-> voice_name, ok |-> TRUE])
    IN  IF Ok(s2) THEN Outcome(d2, s2, <<>>, FALSE)
        ELSE SelectionExcept(d2, s2, tg)

\* handle_text_message: the text as speech, or a text saying why not
handle_text_message(d, user_text, key, resp, tg) ==
    IF Not(user_text) THEN Outcome(d, <<>>, <<>>, FALSE)
    ELSE
    LET s1 == Call(<<>>, tg, Msg("send_chat_action", "record_voice")) IN
    IF ~Ok(s1) THEN Outcome(d, s1, <<>>, TRUE)
    ELSE
    LET selected_voice_id == DictGet(d, "voice_id", DEFAULT_ELEVENLABS_VOICE_ID)
        selected_voice_name == DictGet(d, "voice_name", DefaultName)
    IN
    IF Not(key)
    THEN LET s2 == Call(s1, tg, Msg("reply_text", "key_not_set")) IN
         Outcome(d, s2, <<>>, ~Ok(s2))
    ELSE
    LET audio == generate_tts_elevenlabs(user_text, selected_voice_id, key, resp)
        calls == <<[fn |-> "generate_tts_elevenlabs", text |-> user_text,
                    voice_id |-> selected_voice_id, api_key |-> key,
                    result |-> audio]>>
    IN
    IF audio.exc THEN Outcome(d, s1, calls, TRUE)
    ELSE IF Truthy(audio.val)
    THEN LET s2 == Call(s1, tg, [api |-> "reply_voice", text |-> "voice.mp3",
                                   voice |-> audio.val.v,
                                   caption |-> selected_voice_name, ok |-> TRUE]) IN
         IF Ok(s2) THEN Outcome(d, s2, calls, FALSE)
         ELSE LET s3 == Call(s2, tg, Msg("reply_text", "error_sending_audio")) IN
              Outcome(d, s3, calls, ~Ok(s3))
    ELSE LET s2 == Call(s1, tg, Msg("reply_text", "tts_failed")) IN
         Outcome(d, s2, calls, ~Ok(s2))

\* error_handler without the try around its reply
error_handler_no_try(k, tg) ==
    [sent |-> <<[Msg("reply_text", "unexpected_error") EXCEPT !.ok = tg[k + 1]]>>,
     raised |-> ~tg[k + 1]]

\* error_handler: its reply to the update that raised, as the next Telegram
\* call after the k the handler made; it swallows the failure of its own reply
error_handler(k, tg) ==
    [sent |-> <<[Msg("reply_text", "unexpected_error") EXCEPT !.ok = tg[k + 1]]>>,
     raised |-> FALSE]

\* what error_handler leaves when it is not called
NotCalled == [sent |-> <<>>, raised |-> FALSE]

\* Application.process_update: the handler, then error_handler if it raised
process_update(out, tg) ==
    LET err == IF out.raised THEN error_handler(Len(out.sent), tg) ELSE NotCalled IN
    [user_data |-> out.user_data, sent |-> out.sent, calls |-> out.calls,
     raised |-> out.raised,
     error_sent |-> err.sent, error_raised |-> err.raised]

-----------------------------------------------------------------------------
(* State machine: one action per update *)

NoResp == [kind |-> "none", status |-> 0]

\* a payload of the form voice_<id>_<name>
IsSelectionPayload(data) ==
    /\ Len(data) > Len(Marker)
    /\ SubSeq(data, 1, Len(Marker)) = Marker
    /\ data[Len(Marker) + 1] = Delim
    /\ \E i \in (Len(Marker) + 2)..Len(data) : data[i] = Delim

\* callback payloads: a head and any tail over the alphabet, and the payloads of
\* the buttons a picker offers
Heads == {Marker, SubSeq(Marker, 1, Len(Marker) - 1)}
Payloads ==
    {h \o t : h \in Heads, t \in Strings(Alphabet, MaxTail)}
    \cup {Button(VoiceAt(i)).callback_data : i \in 1..MaxPick}

\* the buttons of a keyboard
ButtonsOf(keyboard) ==
    UNION {{keyboard[r][j] : j \in 1..Len(keyboard[r])} : r \in 1..Len(keyboard)}

\* the buttons of the pickers Telegram accepted among the calls of a handler,
\* as far as the model has a user press them
Offered(out) ==
    LET shown == {i \in 1..Len(out.sent) :
                     out.sent[i].text = "choose_voice" /\ out.sent[i].ok}
        buttons == UNION {ButtonsOf(out.sent[i].reply_markup) : i \in shown}
    IN  {b \in buttons : b.callback_data \in Payloads}

\* Telegram outcomes are drawn only for the calls the update makes: the
\* outcomes of calls never made are fixed to TRUE
Consumed(out, tg) ==
    \A k \in (Len(out.sent) + Len(out.error_sent) + 1)..MaxTgCalls : tg[k]

\* no update is being looked at: run_polling waits for the next one
NoUpdate ==
    [handler |-> "none", owner |-> "none", data |-> <<>>, resp |-> NoResp,
     before |-> EmptyDict, sent |-> <<>>, error_sent |-> <<>>, error_raised |-> FALSE,
     calls |-> <<>>, raised |-> FALSE]

\* the update is over, with a dict all users share in place of user_data
HandledShared(handler, o, data, resp, out) ==
    /\ user_data' = [u \in Owners |-> out.user_data]
    /\ last' = [handler |-> handler, owner |-> o, data |-> data, resp |-> resp,
                before |-> user_data[o], sent |-> out.sent, error_sent |-> out.error_sent,
                error_raised |-> out.error_raised,
                calls |-> out.calls, raised |-> out.raised]
    /\ UNCHANGED api_key

\* the update is over: the user's dict is replaced and what the update did is
\* recorded
Handled(handler, o, data, resp, out) ==
    /\ user_data' = [user_data EXCEPT ![o] = out.user_data]
    /\ last' = [handler |-> handler, owner |-> o, data |-> data, resp |-> resp,
                before |-> user_data[o], sent |-> out.sent, error_sent |-> out.error_sent,
                error_raised |-> out.error_raised,
                calls |-> out.calls, raised |-> out.raised]
    /\ UNCHANGED api_key

Init ==
    /\ user_data = [o \in Owners |-> EmptyDict]
    /\ api_key \in {NoKey, SomeKey}
    /\ last = NoUpdate
    /\ selected = [o \in Owners |-> None]
    /\ offered = {}

Start(o) ==
    /\ last = NoUpdate
    /\ \E tg \in TgOutcomes :
        LET out == process_update(start_command(user_data[o], tg), tg) IN
        /\ Consumed(out, tg)
        /\ Handled("start_command", o, <<>>, NoResp, out)
        /\ UNCHANGED <<selected, offered>>

Help(o) ==
    /\ last = NoUpdate
    /\ \E tg \in TgOutcomes :
        LET out == process_update(help_command(user_data[o], tg), tg) IN
        /\ Consumed(out, tg)
        /\ Handled("help_command", o, <<>>, NoResp, out)
        /\ UNCHANGED <<selected, offered>>

\* the provider's response is drawn only when the handler calls the provider
Voices(o) ==
    /\ last = NoUpdate
    /\ \E tg \in TgOutcomes, resp \in DirResponses \cup {NoResp} :
        LET out == process_update(voices_command(user_data[o], api_key, resp, tg), tg) IN
        /\ Consumed(out, tg)
        /\ (resp = NoResp) <=> (out.calls = <<>>)
        /\ Handled("voices_command", o, <<>>, resp, out)
        /\ offered' = offered \cup Offered(out)
        /\ UNCHANGED selected

Select(o) ==
    /\ last = NoUpdate
    /\ \E tg \in TgOutcomes, data \in Payloads :
        LET out == process_update(voice_selection_callback(user_data[o], data, tg), tg) IN
        /\ Consumed(out, tg)
        /\ Handled("voice_selection_callback", o, data, NoResp, out)
        /\ selected' = IF IsSelectionPayload(data) /\ tg[1]
                       THEN [selected EXCEPT ![o] = Some(data)]
                       ELSE selected
        /\ UNCHANGED offered

TextMessage(o) ==
    /\ last = NoUpdate
    /\ \E tg \in TgOutcomes, user_text \in Texts, resp \in TtsResponses \cup {NoResp} :
        LET out == process_update(
                       handle_text_message(user_data[o], user_text, api_key, resp, tg),
                       tg) IN
        /\ Consumed(out, tg)
        /\ (resp = NoResp) <=> (out.calls = <<>>)
        /\ Handled("handle_text_message", o, user_text, resp, out)
        /\ UNCHANGED <<selected, offered>>

\* run_polling goes back to waiting: what the last update did is history
run_polling ==
    /\ last # NoUpdate
    /\ last' = NoUpdate
    /\ UNCHANGED <<user_data, api_key, selected, offered>>

Next ==
    \/ \E o \in Owners : Start(o)
    \/ \E o \in Owners : Help(o)
    \/ \E o \in Owners : Voices(o)
    \/ \E o \in Owners : Select(o)
    \/ \E o \in Owners : TextMessage(o)
    \/ run_polling

Spec == Init /\ [][Next]_vars

-----------------------------------------------------------------------------
(* What the claims speak of *)

IsSelection == last.handler = "voice_selection_callback"
IsText == last.handler = "handle_text_message"
IsHelp == last.handler = "help_command"
IsVoices == last.handler = "voices_command"

\* the dict of the user the last update came from
Current == user_data[last.owner]

\* the stored preference as get() resolves it
ResolvedId(d) == DictGet(d, "voice_id", DEFAULT_ELEVENLABS_VOICE_ID)
ResolvedName(d) == DictGet(d, "voice_name", DefaultName)

\* number of delimiters in a payload
NumDelims(data) == Cardinality({i \in 1..Len(data) : data[i] = Delim})

StartsWithMarker(data) ==
    Len(data) >= Len(Marker) /\ SubSeq(data, 1, Len(Marker)) = Marker

\* position of the second delimiter of a payload voice_<id>_<name>
SecondDelim(data) ==
    CHOOSE i \in (Len(Marker) + 2)..Len(data) :
        /\ data[i] = Delim
        /\ \A j \in (Len(Marker) + 2)..(i - 1) : data[j] # Delim

\* the id and the name a payload voice_<id>_<name> carries: the text between the
\* first two delimiters, and all the text after the second one
PayloadId(data) == SubSeq(data, Len(Marker) + 2, SecondDelim(data) - 1)
PayloadName(data) == SubSeq(data, SecondDelim(data) + 1, Len(data))

\* the handler got past query.answer()
Acknowledged == Len(last.sent) >= 1 /\ last.sent[1].api = "answer" /\ last.sent[1].ok

IsPicker(m) == m.api = "reply_text" /\ m.text = "choose_voice"
IsAudioReply(m) == m.api = "reply_voice"
IsTextReply(m) ==
    /\ m.api \in {"reply_text", "reply_html", "edit_message_text"}
    /\ ~IsPicker(m)

\* Telegram accepted every call of the last update
Delivered ==
    /\ ~last.raised
    /\ \A i \in 1..Len(last.sent) : last.sent[i].ok

\* the replies of a kind among the Telegram calls of the last handler
AudioReplies == {i \in 1..Len(last.sent) : IsAudioReply(last.sent[i])}
TextReplies == {i \in 1..Len(last.sent) : IsTextReply(last.sent[i])}
Pickers == {i \in 1..Len(last.sent) : IsPicker(last.sent[i])}

-----------------------------------------------------------------------------
(* C1 *)

\* C1 (as claimed): once the selection handler has stored a payload
\* voice_<id>_<name> and confirmed it, the owner's voice_id and voice_name read
\* back are the id and the name of the payload, also when the name holds
\* underscores.
C1_RoundTrip ==
    (IsSelection /\ IsSelectionPayload(last.data) /\ Delivered) =>
        /\ ResolvedId(Current) = PayloadId(last.data)
        /\ ResolvedName(Current) = PayloadName(last.data)

-----------------------------------------------------------------------------
(* C2 *)

\* a payload that does not start with the marker or has fewer than three
\* underscore-delimited segments
Malformed(data) == ~StartsWithMarker(data) \/ NumDelims(data) + 1 < MinParts

\* C2: for a payload that does not start with "voice" or has fewer than three
\* segments, the owner's preference after the selection handler is the one
\* before it, the handler answers by editing the message to the invalid-data
\* text, and it never confirms a voice.
C2_MalformedRejected ==
    (IsSelection /\ Malformed(last.data)) =>
        /\ Current = last.before
        /\ Acknowledged =>
              /\ Len(last.sent) >= 2
              /\ last.sent[2].api = "edit_message_text"
              /\ last.sent[2].text = "invalid_data"
        /\ \A i \in 1..Len(last.sent) : last.sent[i].text # "voice_set"

\* a malformed payload of an owner who holds a preference was rejected, and the
\* user saw the message
C2_Witness ==
    /\ IsSelection /\ Malformed(last.data)
    /\ last.before # EmptyDict
    /\ Len(last.sent) = 2 /\ last.sent[2].text = "invalid_data" /\ last.sent[2].ok

-----------------------------------------------------------------------------
(* C3, C4, C5: the free-text handler *)

\* the handler called the TTS client
Synthesized ==
    IsText /\ Len(last.calls) = 1 /\ last.calls[1].fn = "generate_tts_elevenlabs"

\* the TTS client returned the bytes of a 200 response
ClientReturnedBytes ==
    Synthesized /\ last.resp.kind = "response" /\ last.resp.status = 200

\* the TTS client returned its failure value
ClientFailed == Synthesized /\ ~ClientReturnedBytes

\* exactly one audio reply, carrying the bytes of the response
OneAudioReplyWithBytes ==
    /\ Cardinality(AudioReplies) = 1
    /\ \A i \in AudioReplies : last.sent[i].voice = last.resp.content

\* C3 (as claimed): for a non-empty text, when the TTS client returns audio
\* bytes B (and Telegram accepts every call), the handler emits exactly one
\* audio reply, and it holds exactly B.
C3_AudioForAnyBytes ==
    (ClientReturnedBytes /\ last.data # <<>> /\ Delivered) => OneAudioReplyWithBytes

\* C3 (amended): for a non-empty text, when the TTS client returns non-empty
\* audio bytes B, the handler emits exactly one audio reply, and it holds
\* exactly B; it adds a text reply only if sending the audio raised.  When the
\* client returns empty bytes, the handler emits the failure text and no audio.
C3_AudioForNonEmptyBytes ==
    /\ (ClientReturnedBytes /\ last.data # <<>> /\ last.resp.content # <<>>) =>
          /\ OneAudioReplyWithBytes
          /\ \A i \in AudioReplies : last.sent[i].ok => TextReplies = {}
    /\ (ClientReturnedBytes /\ last.data # <<>> /\ last.resp.content = <<>>) =>
          /\ AudioReplies = {}
          /\ Cardinality(TextReplies) = 1
          /\ \A i \in TextReplies : last.sent[i].text = "tts_failed"

\* non-empty bytes were sent back as the one voice message, and it went through
C3_Witness ==
    /\ ClientReturnedBytes /\ last.data # <<>> /\ last.resp.content # <<>>
    /\ Len(last.sent) = 2 /\ IsAudioReply(last.sent[2]) /\ last.sent[2].ok
    /\ last.sent[2].voice = last.resp.content

\* C4: for a non-empty text, when the TTS client returns a failure, the handler
\* emits a text reply and no audio reply, and no exception of the client leaves
\* it: it raises only if Telegram refuses that text reply.
C4_FailureGivesText ==
    (ClientFailed /\ last.data # <<>>) =>
        /\ Cardinality(TextReplies) = 1
        /\ \A i \in TextReplies : last.sent[i].text = "tts_failed"
        /\ AudioReplies = {}
        /\ last.raised => \E i \in TextReplies : ~last.sent[i].ok

\* a transport error of the provider was answered by the text, nothing raised
C4_Witness ==
    /\ ClientFailed /\ last.data # <<>>
    /\ last.resp.kind = "request_exception"
    /\ Len(last.sent) = 2 /\ last.sent[2].text = "tts_failed" /\ last.sent[2].ok
    /\ ~last.raised

\* C5: for an empty text, the free-text handler makes no Telegram call at all
\* (no text, no audio, no activity indicator) and no synthesize call, does not
\* raise and leaves the preference alone.
C5_EmptyTextIgnored ==
    (IsText /\ last.data = <<>>) =>
        /\ last.sent = <<>>
        /\ last.error_sent = <<>>
        /\ last.calls = <<>>
        /\ ~last.raised
        /\ Current = last.before

\* an empty text reached the handler of an owner with a configured credential
C5_Witness == IsText /\ last.data = <<>> /\ api_key # NoKey /\ last.sent = <<>>

-----------------------------------------------------------------------------
(* C6: the default voice *)

\* C6: an owner with no valid selection so far resolves to the default
\* voice_id and the name "Default", in the help text and in the free-text
\* handler (the voice_id it synthesizes with, the caption of the audio), and
\* the lookup itself never raises: those handlers raise only when a Telegram
\* call does.
C6_DefaultVoice ==
    /\ (IsHelp /\ ~selected[last.owner].some) =>
          /\ Len(last.sent) = 1
          /\ last.sent[1].voice_id = DEFAULT_ELEVENLABS_VOICE_ID
          /\ last.sent[1].voice_name = DefaultName
          /\ last.raised => ~last.sent[1].ok
    /\ (IsText /\ ~selected[last.owner].some) =>
          /\ \A i \in 1..Len(last.calls) :
                last.calls[i].voice_id = DEFAULT_ELEVENLABS_VOICE_ID
          /\ \A i \in AudioReplies : last.sent[i].caption = DefaultName
          /\ last.raised => \E i \in 1..Len(last.sent) : ~last.sent[i].ok

\* after the other owner has selected a voice, an owner who never did gets the
\* default in the help text
C6_Witness ==
    /\ IsHelp /\ ~selected[last.owner].some
    /\ \E o \in Owners : selected[o].some
    /\ last.sent[1].ok /\ last.sent[1].voice_name = DefaultName

-----------------------------------------------------------------------------
(* C7: the picker *)

\* the buttons of a keyboard, row after row
RECURSIVE Flatten(_)
Flatten(keyboard) ==
    IF keyboard = <<>> THEN <<>> ELSE Head(keyboard) \o Flatten(Tail(keyboard))

\* the voices command got a directory of at least one voice
GotVoices ==
    /\ IsVoices /\ Len(last.calls) = 1
    /\ last.resp.kind = "response" /\ last.resp.status = 200
    /\ Len(last.resp.voices) >= 1

\* C7: for a directory of n >= 1 voices the picker offers exactly min(n, 20)
\* items, the first min(n, 20) directory entries in directory order, two per
\* row, only the last row may hold one; for n = 25 that is 20 items in 10 full
\* rows.
C7_PickerShape ==
    GotVoices =>
        LET voices == last.resp.voices
            n == Len(voices)
            m == Min(n, 20)
        IN  /\ Len(last.sent) = 2 /\ IsPicker(last.sent[2])
            /\ LET keyboard == last.sent[2].reply_markup
                   items == Flatten(keyboard)
                   rows == Len(keyboard)
               IN  /\ Len(items) = m
                   /\ \A i \in 1..m :
                         /\ items[i].text = voices[i].name
                         /\ items[i].callback_data =
                               <<"v", "o", "i", "c", "e", "_">> \o voices[i].voice_id
                                   \o <<"_">> \o voices[i].name
                   /\ \A r \in 1..(rows - 1) : Len(keyboard[r]) = 2
                   /\ rows >= 1 /\ Len(keyboard[rows]) \in {1, 2}
                   /\ n = 25 =>
                         rows = 10 /\ \A r \in 1..rows : Len(keyboard[r]) = 2

\* a directory of 25 voices was shown as 10 rows
C7_Witness ==
    /\ GotVoices /\ Len(last.resp.voices) = 25
    /\ Len(last.sent) = 2 /\ IsPicker(last.sent[2]) /\ last.sent[2].ok
    /\ Len(last.sent[2].reply_markup) = 10

-----------------------------------------------------------------------------
(* C8: the voice a text is synthesized with *)

\* C8: with the credential configured, a non-empty text of an owner (once
\* Telegram has accepted the recording indicator that precedes the lookup)
\* results in exactly one synthesize call, for that text, with the voice_id of
\* the owner's most recent valid selection, or the default if there is none.
C8_SynthesizesWithSelection ==
    (IsText /\ last.data # <<>> /\ api_key # NoKey /\ last.sent[1].ok) =>
        /\ Len(last.calls) = 1
        /\ last.calls[1].fn = "generate_tts_elevenlabs"
        /\ last.calls[1].text = last.data
        /\ last.calls[1].voice_id =
              IF selected[last.owner].some
              THEN PayloadId(selected[last.owner].v)
              ELSE DEFAULT_ELEVENLABS_VOICE_ID

\* after the button of the offered voice v1 was pressed, a text was synthesized
\* with voice_id v1
C8_Witness ==
    /\ IsText /\ last.data # <<>> /\ api_key # NoKey
    /\ selected[last.owner] = Some(Button(VoiceAt(1)).callback_data)
    /\ Len(last.calls) = 1 /\ last.calls[1].voice_id = <<"v", "1">>

-----------------------------------------------------------------------------
(* C9, C10: the voices command without a picker *)

\* C9: without the credential, the voices command emits the not-configured
\* text and nothing else: no activity indicator, no directory call, no picker.
C9_NotConfigured ==
    (IsVoices /\ api_key = NoKey) =>
        /\ Len(last.sent) = 1
        /\ last.sent[1].api = "reply_text" /\ last.sent[1].text = "not_configured"
        /\ last.calls = <<>>
        /\ Pickers = {}

\* the not-configured text was sent
C9_Witness ==
    /\ IsVoices /\ api_key = NoKey
    /\ Len(last.sent) = 1 /\ last.sent[1].text = "not_configured" /\ last.sent[1].ok

\* the directory call was made and gave None or no voice
DirectoryFailedOrEmpty ==
    /\ IsVoices /\ Len(last.calls) = 1
    /\ \/ last.resp.kind # "response"
       \/ last.resp.status # 200
       \/ last.resp.voices = <<>>

\* C10: when the directory call fails or returns no voice, the voices command
\* emits exactly one text, the failure text, and no picker.
C10_NoPickerOnFailure ==
    DirectoryFailedOrEmpty =>
        /\ Cardinality(TextReplies) = 1
        /\ \A i \in TextReplies : last.sent[i].text = "could_not_fetch"
        /\ Pickers = {}

\* an empty directory was answered by the failure text
C10_Witness ==
    /\ DirectoryFailedOrEmpty
    /\ last.resp.kind = "response" /\ last.resp.status = 200
    /\ Len(last.sent) = 2 /\ last.sent[2].text = "could_not_fetch" /\ last.sent[2].ok

-----------------------------------------------------------------------------
(* C11: the client boundary *)

\* what the provider did was a success
ProviderSucceeded == last.resp.kind = "response" /\ last.resp.status = 200

\* C11: whatever the provider does (a 200, a 401, another non-2xx status, a
\* timeout or connection error, an unexpected error), the client function
\* returns: a payload for a 200, None for everything else.  No exception of a
\* provider call reaches the handler: a handler that called the provider
\* raises only if a Telegram call of its own did.
C11_ClientNeverRaises ==
    \A i \in 1..Len(last.calls) :
        /\ ~last.calls[i].result.exc
        /\ last.calls[i].result.val.some <=> ProviderSucceeded
        /\ last.raised => \E j \in 1..Len(last.sent) : ~last.sent[j].ok

\* an unexpected error inside the synthesize call came back as None, and the
\* handler went on to its failure text without raising
C11_Witness ==
    /\ IsText /\ Len(last.calls) = 1
    /\ last.resp.kind = "exception"
    /\ last.calls[1].result = Return(None)
    /\ ~last.raised /\ Len(last.sent) = 2 /\ last.sent[2].ok

-----------------------------------------------------------------------------
(* C12: the error boundary *)

\* the one reply of error_handler
IsBoundaryReply(m) == m.api = "reply_text" /\ m.text = "unexpected_error"

\* C12: when a handler raises, error_handler answers with the one generic
\* unexpected-error reply (and says nothing when no handler raised); it never
\* raises itself, also when Telegram refuses that reply; and the application
\* goes on: after the update that raised run_polling takes the next update,
\* and while it waits every handler can be dispatched for every user.
C12_BoundaryContains ==
    /\ last.raised =>
          /\ Len(last.error_sent) = 1
          /\ IsBoundaryReply(last.error_sent[1])
          /\ ENABLED run_polling
    /\ ~last.raised => last.error_sent = <<>>
    /\ ~last.error_raised
    /\ last = NoUpdate =>
          \A o \in Owners :
              /\ ENABLED Start(o)
              /\ ENABLED Help(o)
              /\ ENABLED Voices(o)
              /\ ENABLED Select(o)
              /\ ENABLED TextMessage(o)

\* a handler raised, Telegram refused the reply of error_handler as well, and
\* error_handler swallowed that
C12_Witness ==
    /\ last.raised
    /\ Len(last.error_sent) = 1 /\ ~last.error_sent[1].ok
    /\ ~last.error_raised

-----------------------------------------------------------------------------
(* C13: where a stored voice_id comes from *)

\* the voices whose button a picker has shown so far
OfferedVoices == {v \in {VoiceAt(i) : i \in 1..MaxPick} : Button(v) \in offered}

\* C13 (as claimed): in every state, a voice_id stored for a user is the
\* voice_id of a voice a picker has offered before; a user with nothing stored
\* resolves to the default voice_id; and a user holds at most one preference,
\* the one pair of voice_id and voice_name.  Looked at after the updates all of
\* whose Telegram calls went through.
C13_StoredWasOffered ==
    Delivered =>
    \A o \in Owners :
        /\ "voice_id" \in DOMAIN user_data[o] =>
              \E v \in OfferedVoices : user_data[o]["voice_id"] = v.voice_id
        /\ user_data[o] = EmptyDict =>
              ResolvedId(user_data[o]) = DEFAULT_ELEVENLABS_VOICE_ID
        /\ DOMAIN user_data[o] \in {{}, {"voice_id", "voice_name"}}

-----------------------------------------------------------------------------
(* C14: one user's selection and another user's preference *)

\* C14: a selection update of a user changes nothing in the dict of any other
\* user: across every step that handles a selection, the preference of every
\* user but the one who sent it is what it was before the step.
C14_SelectionIsolated ==
    [][\A o \in Owners :
          (last'.handler = "voice_selection_callback" /\ last'.owner # o) =>
              user_data'[o] = user_data[o]]_vars

\* a user stored a new voice while another user held a different preference
C14_Witness ==
    /\ IsSelection /\ Current # last.before
    /\ \E o \in Owners \ {last.owner} :
          user_data[o] # EmptyDict /\ user_data[o] # Current

-----------------------------------------------------------------------------
(* C15: the handlers that only read the preference *)

\* C15: the start, help and voices commands and the free-text handler leave
\* the dict of every user as it was, whatever the provider and Telegram do;
\* the dict of a user changes only in a step in which the selection handler
\* takes up a well-formed payload of that user.
C15_OnlySelectionWrites ==
    [][\A o \in Owners :
          user_data'[o] # user_data[o] =>
              /\ last'.handler = "voice_selection_callback"
              /\ last'.owner = o
              /\ IsSelectionPayload(last'.data)
              /\ last'.sent[1].ok]_vars

\* the synthesis for a user who holds a preference failed, and the preference
\* is what it was
C15_Witness ==
    /\ ClientFailed /\ last.resp.status = Unauthorized
    /\ last.before # EmptyDict
    /\ Current = last.before

-----------------------------------------------------------------------------
(* C16: the confirmation of a selection *)

\* the calls of the selection handler that edit the picker into the confirmation
Confirmations ==
    {i \in 1..Len(last.sent) : IsSelection /\ last.sent[i].text = "voice_set"}

\* C16: for a well-formed payload the selection handler (once query.answer()
\* has returned) edits the picker into the confirmation exactly once, as its
\* call after the acknowledgement; whenever it makes that edit, accepted by
\* Telegram or not, the preference is already stored: the user's dict holds the
\* id of the payload and, as voice_name, exactly the name the confirmation
\* shows.  A payload that is not well formed is never confirmed.
C16_StoreThenConfirm ==
    /\ (IsSelection /\ IsSelectionPayload(last.data) /\ Acknowledged) =>
          Confirmations = {2}
    /\ \A i \in Confirmations :
          /\ IsSelectionPayload(last.data)
          /\ DOMAIN Current = {"voice_id", "voice_name"}
          /\ Current["voice_id"] = PayloadId(last.data)
          /\ Current["voice_name"] = last.sent[i].voice_name

\* a user who held a preference pressed the button of the offered voice a_b:
\* the confirmation went through, and it shows the name that is now stored
C16_Witness ==
    /\ Confirmations = {2} /\ last.sent[2].ok
    /\ Button(VoiceAt(2)) \in offered
    /\ last.data = Button(VoiceAt(2)).callback_data
    /\ last.before # EmptyDict
    /\ Current # last.before
    /\ Current["voice_name"] = last.sent[2].voice_name

-----------------------------------------------------------------------------
(* C17: what the user is told about a failed synthesis *)

\* the Telegram calls of a handler without their outcomes
Attempted(sent) == [i \in 1..Len(sent) |-> [sent[i] EXCEPT !.ok = TRUE]]

\* what the free-text handler does for a failed synthesis
FailureCalls ==
    <<Msg("send_chat_action", "record_voice"), Msg("reply_text", "tts_failed")>>

\* C17: for a non-empty text whose synthesis failed, the Telegram calls of the
\* free-text handler are the same two calls for every failure (a 401, another
\* error status, a transport error, an unexpected error) and every error body:
\* the recording indicator and the one fixed failure text, which carries
\* neither the status nor any part of the body.
C17_UniformFailureReply ==
    (ClientFailed /\ last.data # <<>>) => Attempted(last.sent) = FailureCalls

\* a 401 with a non-empty error body was answered by the fixed text
C17_Witness ==
    /\ ClientFailed /\ last.data # <<>>
    /\ last.resp.kind = "response" /\ last.resp.status = Unauthorized
    /\ last.resp.content # <<>>
    /\ Delivered /\ Attempted(last.sent) = FailureCalls

-----------------------------------------------------------------------------
(* C18: a text message without the credential *)

\* C18: without the credential, a non-empty text (once Telegram has accepted
\* the recording indicator that precedes the check) gets exactly one text
\* reply, the key-not-set text; in no case is there an audio reply or a
\* synthesize call, and the handler raises only if a Telegram call does.
C18_NoKeyNoSynthesis ==
    (IsText /\ last.data # <<>> /\ api_key = NoKey) =>
        /\ last.calls = <<>>
        /\ AudioReplies = {}
        /\ last.sent[1].ok =>
              /\ TextReplies = {2} /\ Len(last.sent) = 2
              /\ last.sent[2].api = "reply_text" /\ last.sent[2].text = "key_not_set"
        /\ last.raised => \E i \in 1..Len(last.sent) : ~last.sent[i].ok

\* the text of a user who holds a preference was answered by the key-not-set
\* text, and nothing raised
C18_Witness ==
    /\ IsText /\ last.data # <<>> /\ api_key = NoKey
    /\ last.before # EmptyDict
    /\ Delivered /\ Len(last.sent) = 2 /\ last.sent[2].text = "key_not_set"

-----------------------------------------------------------------------------
(* C19: voice_id and voice_name go together *)

\* a name as the selection handler stores it (see C1)
Spaced(name) == [i \in 1..Len(name) |-> IF name[i] = Delim THEN Space ELSE name[i]]

\* the voice_id and voice_name of the last selection a user made, the defaults
\* if there is none
PairOf(o) ==
    IF selected[o].some
    THEN <<PayloadId(selected[o].v), Spaced(PayloadName(selected[o].v))>>
    ELSE <<DEFAULT_ELEVENLABS_VOICE_ID, DefaultName>>

\* C19: the voice_id and the voice_name a user resolves to always come from
\* one and the same selection of that user, or are both the defaults.  So do
\* the two the help text shows, and the voice_id a text is synthesized with
\* together with the name in the caption of its audio reply.
C19_PairFromOneSelection ==
    /\ \A o \in Owners :
          <<ResolvedId(user_data[o]), ResolvedName(user_data[o])>> = PairOf(o)
    /\ IsHelp =>
          <<last.sent[1].voice_id, last.sent[1].voice_name>> = PairOf(last.owner)
    /\ IsText =>
          \A i \in AudioReplies :
              <<last.calls[1].voice_id, last.sent[i].caption>> = PairOf(last.owner)

\* after the two users chose different voices, the audio for one of them was
\* synthesized with the id, and captioned with the name, of that user's choice
C19_Witness ==
    /\ IsText /\ Delivered /\ AudioReplies = {2}
    /\ \A o \in Owners : selected[o].some
    /\ \E o \in Owners : PairOf(o)[1] # PairOf(last.owner)[1]
    /\ \E o \in Owners : PairOf(o)[2] # PairOf(last.owner)[2]
    /\ <<last.calls[1].voice_id, last.sent[2].caption>> = PairOf(last.owner)

-----------------------------------------------------------------------------
(* C20: a selection that ends with an error text *)

\* the selection handler ended by showing one of its two error texts
ShowedSelectionError ==
    /\ IsSelection /\ last.sent # <<>>
    /\ last.sent[Len(last.sent)].text \in {"invalid_data", "selection_error"}
    /\ last.sent[Len(last.sent)].ok

\* C20 (as claimed): whenever the selection handler ends by showing an error
\* text, the invalid-data text or the text that setting the voice failed, the
\* user's preference is the one from before the selection.  Looked at for the
\* payloads that are not of the form voice_<id>_<name> and for the payloads of
\* the buttons a picker has shown.
C20_ErrorLeavesPreference ==
    /\ (ShowedSelectionError /\ ~IsSelectionPayload(last.data)) =>
          Current = last.before
    /\ (ShowedSelectionError /\ \E b \in offered : b.callback_data = last.data) =>
          Current = last.before

====
